---- MODULE Spec2Model ----
(***************************************************************************)
(* Model of examples/print_elec_prices.py: the hourly consolidation of the *)
(* fetched price samples (fetch_and_process_data), the today/tomorrow      *)
(* partition, the two renderers (display_prices, display_plot) and the     *)
(* touch-driven main loop of run().                                         *)
(*                                                                         *)
(* Strings are sequences of ASCII codes, so that slicing, startswith and   *)
(* sorted() compare them exactly as Python does.  Prices are exact         *)
(* rationals [num, den] in lowest terms; the samples of the model are      *)
(* small integers, for which the float sum and the correctly rounded       *)
(* float quotient of the code distinguish exactly the same values.         *)
(***************************************************************************)
EXTENDS Integers, Sequences, FiniteSets, TLC

\* ------------------------------------------------------------------ bounds

\* longest list of samples the startup fetch pair returns in SpecFetch
MaxSamples == 3

\* longest list of samples one get_data call returns in Spec
MaxFetch == 1

\* --------------------------------------------------------------- strings

\* None, for the view state and for start_x, start_y (an integer once set,
\* held as a one-element tuple)
None == "None"
NoCoord == <<>>
Coord(v) == <<v>>

Min(a, b) == IF a <= b THEN a ELSE b

\* s[a:b] of Python for 0 <= a <= b: clipped at the end of s
Slice(s, a, b) == SubSeq(s, a + 1, Min(b, Len(s)))

\* s.startswith(p)
StartsWith(s, p) == Len(s) >= Len(p) /\ SubSeq(s, 1, Len(p)) = p

\* s < t of Python strings: lexicographic by character code, decided at the
\* first position where they differ or one of them ends
RECURSIVE StrLessFrom(_, _, _)
StrLessFrom(s, t, k) ==
    IF k > Len(t) THEN FALSE
    ELSE IF k > Len(s) THEN TRUE
    ELSE IF s[k] = t[k] THEN StrLessFrom(s, t, k + 1)
    ELSE s[k] < t[k]
StrLess(s, t) == StrLessFrom(s, t, 1)

\* "{:02d}".format(n) and "{:04d}".format(n)
Fmt02(n) == <<48 + ((n \div 10) % 10), 48 + (n % 10)>>
Fmt04(n) == <<48 + ((n \div 1000) % 10), 48 + ((n \div 100) % 10)>> \o Fmt02(n)

\* f"{y:04d}-{m:02d}-{d:02d}"
IsoDate(tm) == Fmt04(tm[1]) \o <<45>> \o Fmt02(tm[2]) \o <<45>> \o Fmt02(tm[3])

\* time.localtime() at startup and time.localtime(time.time() + 86400): two
\* different calendar days (the port's localtime has no daylight saving)
now == <<2024, 1, 20>>
tm == <<2024, 1, 21>>
today_iso == IsoDate(now)
tomorrow_iso == IsoDate(tm)

\* a timestamp of the price API: "2024-01-20T21:30:00+01:00"
TimeStamp(date, h, m) ==
    IsoDate(date) \o <<84>> \o Fmt02(h) \o <<58>> \o Fmt02(m)
        \o <<58, 48, 48, 43, 48, 49, 58, 48, 48>>

\* ------------------------------------------------------------- rationals

RECURSIVE GCD(_, _)
GCD(a, b) == IF b = 0 THEN a ELSE GCD(b, a % b)

\* n / d for n >= 0, d > 0
Rat(n, d) == LET g == GCD(n, d) IN [num |-> n \div g, den |-> d \div g]

RatLess(p, q) == p.num * q.den < q.num * p.den

\* min(prices), max(prices) of a non-empty list
MinOf(prices) ==
    LET i == CHOOSE i \in 1..Len(prices) :
                 \A j \in 1..Len(prices) : ~RatLess(prices[j], prices[i])
    IN prices[i]
MaxOf(prices) ==
    LET i == CHOOSE i \in 1..Len(prices) :
                 \A j \in 1..Len(prices) : ~RatLess(prices[i], prices[j])
    IN prices[i]

\* ------------------------------------------------------- the price samples

Sample(t, p) == [time_start |-> t, SEK_per_kWh |-> p]
\* entries of the JSON list that lack a field
NoTime(p) == [SEK_per_kWh |-> p]
NoPrice(t) == [time_start |-> t]

\* get_data: the list of a 200 response, [] for an HTTP error or an exception
get_data(resp) == IF resp.ok THEN resp.data ELSE <<>>

\* ---------------------------------------------------------- consolidation

\* t[:13]
HourKey(t) == Slice(t, 0, 13)

\* the loop over all_prices that fills hour_prices; entry['...'] raises
\* KeyError on a missing field
RECURSIVE GroupByHour(_, _, _)
GroupByHour(all, i, hour_prices) ==
    IF i > Len(all) THEN [fault |-> "none", value |-> hour_prices]
    ELSE LET entry == all[i] IN
         IF "time_start" \notin DOMAIN entry
         THEN [fault |-> "KeyError", value |-> hour_prices]
         ELSE LET hour == HourKey(entry.time_start)
                  hp == IF hour \in DOMAIN hour_prices
                        THEN hour_prices
                        ELSE hour_prices @@ (hour :> <<>>)
              IN IF "SEK_per_kWh" \notin DOMAIN entry
                 THEN [fault |-> "KeyError", value |-> hp]
                 ELSE GroupByHour(all, i + 1,
                          [hp EXCEPT ![hour] = Append(@, entry.SEK_per_kWh)])

\* sorted(hour_prices): the keys in ascending string order
RECURSIVE Descending(_)
Descending(keys) ==
    IF keys = {} THEN <<>>
    ELSE LET k == CHOOSE k \in keys : \A o \in keys : ~StrLess(k, o)
         IN <<k>> \o Descending(keys \ {k})
RECURSIVE sorted(_)
sorted(keys) ==
    IF keys = {} THEN <<>>
    ELSE LET k == CHOOSE k \in keys : \A o \in keys : ~StrLess(o, k)
         IN <<k>> \o sorted(keys \ {k})

RECURSIVE sum(_)
sum(prices) == IF prices = <<>> THEN 0 ELSE Head(prices) + sum(Tail(prices))

\* sum(prices) / len(prices)
avg_first(prices) == Rat(Head(prices), 1)
avg_price(prices) == Rat(sum(prices), Len(prices))

\* hour + ":00:00"
HourStart(hour) == hour \o <<58, 48, 48, 58, 48, 48>>

\* lines 65-84 of fetch_and_process_data on the concatenated fetch results
Consolidate(all) ==
    LET g == GroupByHour(all, 1, <<>>) IN
    IF g.fault # "none" THEN [fault |-> g.fault, value |-> <<>>]
    ELSE LET hours == sorted(DOMAIN g.value)
         IN [fault |-> "none",
             value |-> [k \in 1..Len(hours) |->
                          Sample(HourStart(hours[k]), avg_price(g.value[hours[k]]))]]

\* [e for e in all_prices if e['time_start'].startswith(iso)]
Unfiltered(all_prices, iso) == all_prices
DayEntries(all_prices, iso) ==
    LET Match(e) == StartsWith(e.time_start, iso) IN SelectSeq(all_prices, Match)

\* lines 50-84: the status screens, the two fetches, the consolidation
fetch_and_process_data(resp1, resp2) ==
    LET all == get_data(resp1) \o get_data(resp2)
    IN [raw |-> all] @@ Consolidate(all)

\* ------------------------------------------------------------- rendering

IsDigit(c) == 48 <= c /\ c <= 57

\* int(t[11:13]): ValueError unless the two characters are digits
HourNumFails(t) ==
    LET h == Slice(t, 11, 13) IN h = <<>> \/ \E k \in 1..Len(h) : ~IsDigit(h[k])

\* display_prices: "No data found" for an empty series; else the two columns,
\* where the colour quotient is taken only when max_price > min_price
display_prices(all_prices, today_entries, tomorrow_entries) ==
    IF all_prices = <<>> THEN [fault |-> "none", shows |-> "nodata"]
    ELSE LET shown == today_entries \o tomorrow_entries
         IN IF \E k \in 1..Len(shown) : HourNumFails(shown[k].time_start)
            THEN [fault |-> "ValueError", shows |-> "listing"]
            ELSE [fault |-> "none", shows |-> "listing"]

\* display_plot: min(prices) raises ValueError on an empty list; the quotient
\* (prices[i] - min_p) / (max_p - min_p) of the line loop, entered when
\* len(prices) >= 2, raises ZeroDivisionError when max_p == min_p
display_plot(all_prices) ==
    LET prices == [k \in 1..Len(all_prices) |-> all_prices[k].SEK_per_kWh] IN
    IF prices = <<>> THEN [fault |-> "ValueError", shows |-> "plot"]
    ELSE IF Len(prices) >= 2 /\ MaxOf(prices) = MinOf(prices)
         THEN [fault |-> "ZeroDivisionError", shows |-> "plot"]
         ELSE [fault |-> "none", shows |-> "plot"]

\* ---------------------------------------------------------- the gestures

\* distance > 30 and 60 <= angle <= 120, for integer dx, dy:
\* sqrt(dx**2 + dy**2) > 30 iff dx**2 + dy**2 > 900, and atan2(dy, dx) lies
\* within 30 degrees of the +y axis iff dy > 0 and 3 * dx**2 <= dy**2
\* (equality is impossible for integers, so no rounding decides a case)
IsRefreshSwipe(dx, dy) ==
    /\ dx * dx + dy * dy > 900
    /\ dy > 0
    /\ 3 * dx * dx <= dy * dy

\* state = 'prices' after a refresh (line 274)
KeepState(s) == s
StateAfterRefresh(s) == "prices"

\* ------------------------------------------------------------- the inputs

RECURSIVE SeqsUpTo(_, _)
SeqsUpTo(S, n) ==
    IF n = 0 THEN {<<>>}
    ELSE LET shorter == SeqsUpTo(S, n - 1)
         IN shorter \cup {Append(s, e) : s \in {t \in shorter : Len(t) = n - 1}, e \in S}

Failed == [ok |-> FALSE, data |-> <<>>]
Ok(data) == [ok |-> TRUE, data |-> data]

other == <<2024, 1, 19>>

\* samples of the startup fetch in SpecFetch
Pool ==
    { Sample(TimeStamp(now, 21, 0), 1), Sample(TimeStamp(now, 21, 30), 2),
      Sample(TimeStamp(now, 22, 0), 3), Sample(TimeStamp(tm, 0, 0), 1),
      Sample(TimeStamp(other, 23, 0), 2),
      NoTime(1), NoPrice(TimeStamp(now, 21, 0)) }

\* samples of the fetches in Spec
LoopPool ==
    { Sample(TimeStamp(now, 21, 0), 1), Sample(TimeStamp(tm, 0, 0), 1),
      Sample(TimeStamp(other, 23, 0), 2), NoTime(1) }

\* the responses of the two get_data calls: each fails or returns a list
Outcomes(data) == IF data = <<>> THEN {Failed, Ok(<<>>)} ELSE {Ok(data)}
WidePairs ==
    UNION { UNION { Outcomes(SubSeq(s, 1, k)) \X Outcomes(SubSeq(s, k + 1, Len(s)))
                    : k \in 0..Len(s) }
            : s \in SeqsUpTo(Pool, MaxSamples) }
LoopPairs ==
    LET R == {Failed} \cup {Ok(s) : s \in SeqsUpTo(LoopPool, MaxFetch)} IN R \X R

\* presto.touch_a.x, presto.touch_a.y
Points == {<<100, 100>>, <<100, 130>>, <<100, 140>>, <<140, 100>>}

\* ---------------------------------------------------------------- state

VARIABLES
    pc,               \* "boot" before run(), "loop" at the head of the while
                      \* loop, "crashed" after an uncaught exception
    fault,            \* the uncaught exception, "none" while running
    raw,              \* all_prices of line 57: the concatenated fetch results
    all_prices, today_entries, tomorrow_entries,
    state, last_touched, start_x, start_y,
    screen,           \* what presto.update() last put on the display
    event,            \* the kind of the last iteration: "start", "idle",
                      \* "down", "tap" (release, no refresh), "swipe" (refresh)
    cycleState,       \* state when the current touch cycle began
    toggles,          \* view toggles since the current touch cycle began
    fetches,          \* fetch_and_process_data calls since the cycle began
    fetched           \* "failed" when both get_data calls of the last fetch
                      \* failed, else "ok"; "none" before the first fetch

vars == <<pc, fault, raw, all_prices, today_entries, tomorrow_entries, state,
          last_touched, start_x, start_y, screen, event, cycleState, toggles,
          fetches, fetched>>

Init ==
    /\ pc = "boot" /\ fault = "none"
    /\ raw = <<>> /\ all_prices = <<>>
    /\ today_entries = <<>> /\ tomorrow_entries = <<>>
    /\ state = None /\ last_touched = FALSE /\ start_x = NoCoord /\ start_y = NoCoord
    /\ screen = "blank"
    /\ event = "boot" /\ cycleState = None /\ toggles = 0 /\ fetches = 0
    /\ fetched = "none"

FetchStatus(resp1, resp2) == IF ~resp1.ok /\ ~resp2.ok THEN "failed" ELSE "ok"

\* lines 209-246 of run(): connect, fetch, partition, first listing
Startup(resp1, resp2) ==
    /\ pc = "boot"
    /\ \E f \in {fetch_and_process_data(resp1, resp2)} :
       \E today \in {DayEntries(f.value, today_iso)} :
       \E tomorrow \in {DayEntries(f.value, tomorrow_iso)} :
       \E d \in {display_prices(f.value, today, tomorrow)} :
          /\ raw' = f.raw
          /\ fetched' = FetchStatus(resp1, resp2)
          /\ fetches' = 1
          /\ event' = "start"
          /\ UNCHANGED <<last_touched, start_x, start_y, cycleState, toggles>>
          /\ IF f.fault # "none"
             THEN /\ pc' = "crashed" /\ fault' = f.fault
                  /\ screen' = "fetching"
                  /\ UNCHANGED <<all_prices, today_entries, tomorrow_entries, state>>
             ELSE /\ all_prices' = f.value
                  /\ today_entries' = today
                  /\ tomorrow_entries' = tomorrow
                  /\ IF d.fault # "none"
                     THEN /\ pc' = "crashed" /\ fault' = d.fault
                          /\ screen' = "fetching"
                          /\ UNCHANGED state
                     ELSE /\ pc' = "loop" /\ fault' = "none"
                          /\ screen' = d.shows
                          /\ state' = "prices"

StartupWide == \E p \in WidePairs : Startup(p[1], p[2])
StartupLoop == \E p \in LoopPairs : Startup(p[1], p[2])

\* lines 264-274: the refresh of a swipe released at the current sample
Refresh(resp1, resp2) ==
    \E f \in {fetch_and_process_data(resp1, resp2)} :
    \E today \in {DayEntries(f.value, today_iso)} :
    \E tomorrow \in {DayEntries(f.value, tomorrow_iso)} :
    \E d \in {display_prices(f.value, today, tomorrow)} :
       /\ raw' = f.raw
       /\ fetched' = FetchStatus(resp1, resp2)
       /\ fetches' = fetches + 1
       /\ event' = "swipe"
       /\ UNCHANGED <<cycleState, toggles>>
       /\ IF f.fault # "none"
          THEN /\ pc' = "crashed" /\ fault' = f.fault
               /\ screen' = "fetching"
               /\ UNCHANGED <<all_prices, today_entries, tomorrow_entries,
                              state, last_touched, start_x, start_y>>
          ELSE /\ all_prices' = f.value
               /\ today_entries' = today
               /\ tomorrow_entries' = tomorrow
               /\ IF d.fault # "none"
                  THEN /\ pc' = "crashed" /\ fault' = d.fault
                       /\ screen' = "fetching"
                       /\ UNCHANGED <<state, last_touched, start_x, start_y>>
                  ELSE /\ pc' = "loop" /\ fault' = "none"
                       /\ screen' = d.shows
                       /\ state' = StateAfterRefresh(state)
                       /\ start_x' = NoCoord /\ start_y' = NoCoord
                       /\ last_touched' = FALSE

\* an iteration with touched and not last_touched: lines 252-254 record the
\* start point, lines 278-287 render the other view and switch state
TouchDown(x, y) ==
    \E d \in {IF state = "prices" THEN display_plot(all_prices)
               ELSE display_prices(all_prices, today_entries, tomorrow_entries)} :
       /\ start_x' = Coord(x) /\ start_y' = Coord(y)
       /\ event' = "down"
       /\ cycleState' = state
       /\ fetches' = 0
       /\ UNCHANGED <<raw, all_prices, today_entries, tomorrow_entries, fetched>>
       /\ IF d.fault # "none"
          THEN /\ pc' = "crashed" /\ fault' = d.fault
               /\ toggles' = 0
               /\ UNCHANGED <<state, screen, last_touched>>
          ELSE /\ pc' = "loop" /\ fault' = "none"
               /\ screen' = d.shows
               /\ state' = IF state = "prices" THEN "plot" ELSE "prices"
               /\ toggles' = 1
               /\ last_touched' = TRUE

\* an iteration with not touched and last_touched: lines 255-276
TouchUp(x, y) ==
    IF start_x # NoCoord /\ IsRefreshSwipe(x - start_x[1], y - start_y[1])
    THEN \E p \in LoopPairs : Refresh(p[1], p[2])
    ELSE /\ start_x' = NoCoord /\ start_y' = NoCoord
         /\ last_touched' = FALSE
         /\ event' = "tap"
         /\ UNCHANGED <<pc, fault, raw, all_prices, today_entries,
                        tomorrow_entries, state, screen, cycleState, toggles,
                        fetches, fetched>>

\* an iteration with no edge: nothing but last_touched = touched
NoEdge(touched) ==
    /\ last_touched' = touched
    /\ event' = "idle"
    /\ UNCHANGED <<pc, fault, raw, all_prices, today_entries, tomorrow_entries,
                   state, start_x, start_y, screen, cycleState, toggles,
                   fetches, fetched>>

\* one iteration of the while loop (lines 248-290) on one touch sample
Iteration(touched, x, y) ==
    /\ pc = "loop"
    /\ IF touched /\ ~last_touched THEN TouchDown(x, y)
       ELSE IF ~touched /\ last_touched THEN TouchUp(x, y)
       ELSE NoEdge(touched)

Poll == \E touched \in BOOLEAN, p \in Points : Iteration(touched, p[1], p[2])

Next == StartupLoop \/ Poll

Spec == Init /\ [][Next]_vars

NextFetch == StartupWide

SpecFetch == Init /\ [][NextFetch]_vars

\* ---------------------------------------------------------------- claims

\* the first n characters of t, stated without the model's slicing
Prefix(t, n) == [k \in 1..(IF Len(t) < n THEN Len(t) ELSE n) |-> t[k]]

\* s <= t in lexicographic order, stated without the model's comparison
LexLeq(s, t) ==
    \/ Len(s) <= Len(t) /\ \A j \in 1..Len(s) : s[j] = t[j]
    \/ \E k \in 1..Len(s) :
           /\ k <= Len(t)
           /\ \A j \in 1..(k - 1) : s[j] = t[j]
           /\ s[k] < t[k]

RECURSIVE SumOver(_, _)
SumOver(all, I) ==
    IF I = {} THEN 0
    ELSE LET i == CHOOSE i \in I : TRUE
         IN all[i].SEK_per_kWh + SumOver(all, I \ {i})

\* the view on the display is the one the state variable names
ViewMatches(scr, st) ==
    /\ scr \in {"listing", "nodata"} <=> st = "prices"
    /\ scr = "plot" <=> st = "plot"

\* C1: every touch cycle that is not a refresh swipe changes the view state
\* exactly once over the whole cycle, renders the new view and refetches
\* nothing; a tick with no edge leaves the view state unchanged.  The
\* touch-down of a cycle is handled before its release is known, so the
\* claim needs every touch-down to be handled: a cycle whose touch-down ends
\* the program is a tap that toggled nothing.
C1_TapTogglesOnce ==
    [][ /\ event' = "down" => pc' = "loop"
        /\ event' = "tap" =>
               /\ pc' = "loop"
               /\ toggles' = 1 /\ fetches' = 0
               /\ state' # cycleState'
               /\ ViewMatches(screen', state')
        /\ event' = "idle" => state' = state ]_vars

\* C1 on the cycles the loop survives: the same, for the releases reached
C1_CompletedTapTogglesOnce ==
    [][ /\ event' = "tap" =>
               /\ pc' = "loop"
               /\ toggles' = 1 /\ fetches' = 0
               /\ state' # cycleState'
               /\ ViewMatches(screen', state')
        /\ event' = "idle" => state' = state ]_vars

\* C2: from either view state, a cycle released as a refresh swipe ends with
\* state = 'prices' and has called fetch_and_process_data exactly once
C2_SwipeEndsInListing ==
    [][ event' = "swipe" =>
            /\ pc' = "loop"
            /\ state' = "prices"
            /\ fetches' = 1 ]_vars

\* C2 on the refreshes the loop survives
C2_CompletedSwipeEndsInListing ==
    [][ event' = "swipe" /\ pc' = "loop" =>
            /\ state' = "prices"
            /\ fetches' = 1
            /\ ViewMatches(screen', state') ]_vars

\* C3: one gesture per touch cycle: a tap toggles once and refetches nothing,
\* a refresh swipe refetches once and toggles nothing at any point of its
\* cycle (so never shows the plot between its touch-down and its touch-up)
C3_OneGesturePerCycle ==
    /\ event = "tap" => toggles = 1 /\ fetches = 0
    /\ event = "swipe" /\ pc = "loop" => toggles = 0 /\ fetches = 1

\* C4: the consolidated series has exactly one entry per distinct hour key
\* (first 13 characters) of the fetched samples, no key twice, and each
\* entry's price is the sum of the samples of its hour divided by their count
C4_OneMeanPerHour ==
    pc = "loop" =>
        LET Key(e) == Prefix(e.time_start, 13)
            hours == {Key(raw[i]) : i \in DOMAIN raw}
            Of(h) == {i \in DOMAIN raw : Key(raw[i]) = h}
        IN /\ Len(all_prices) = Cardinality(hours)
           /\ \A h \in hours : \E k \in DOMAIN all_prices : Key(all_prices[k]) = h
           /\ \A j, k \in DOMAIN all_prices :
                  Key(all_prices[j]) = Key(all_prices[k]) => j = k
           /\ \A k \in DOMAIN all_prices :
                  LET p == all_prices[k].SEK_per_kWh
                      I == Of(Key(all_prices[k]))
                  IN p.den > 0 /\ p.num * Cardinality(I) = SumOver(raw, I) * p.den

\* the example of the specification: (21:00, 1), (21:30, 2), (22:00, 3)
\* consolidated to (21:00, 3/2), (22:00, 3)
C4_Witness ==
    /\ pc = "loop"
    /\ raw = << Sample(TimeStamp(now, 21, 0), 1), Sample(TimeStamp(now, 21, 30), 2),
                Sample(TimeStamp(now, 22, 0), 3) >>
    /\ Len(all_prices) = 2
    /\ all_prices[1].SEK_per_kWh = [num |-> 3, den |-> 2]
    /\ all_prices[2].SEK_per_kWh = [num |-> 3, den |-> 1]

\* C5: the series held by the program is non-decreasing by time_start, after
\* the first fetch and after every refresh, whatever the order of the samples
C5_SeriesSorted ==
    \A k \in 1..(Len(all_prices) - 1) :
        LexLeq(all_prices[k].time_start, all_prices[k + 1].time_start)

\* a refresh whose samples arrived in descending order
C5_Witness ==
    /\ pc = "loop" /\ event = "swipe"
    /\ Len(raw) = 2 /\ Len(all_prices) = 2
    /\ ~LexLeq(raw[1].time_start, raw[2].time_start)

\* C6: the today and tomorrow buckets are disjoint, order-preserving
\* sub-sequences of the current series: an entry is in a bucket iff its
\* time_start begins with that bucket's date
C6_BucketsPartition ==
    LET In(b, e) == \E k \in DOMAIN b : b[k] = e
        Pos(e) == CHOOSE k \in DOMAIN all_prices : all_prices[k] = e
        SubSeqOf(b) ==
            /\ \A k \in DOMAIN b : In(all_prices, b[k])
            /\ \A j, k \in DOMAIN b : j < k => Pos(b[j]) < Pos(b[k])
    IN /\ SubSeqOf(today_entries) /\ SubSeqOf(tomorrow_entries)
       /\ \A k \in DOMAIN all_prices :
              LET e == all_prices[k] IN
              /\ In(today_entries, e) <=> Prefix(e.time_start, 10) = today_iso
              /\ In(tomorrow_entries, e) <=> Prefix(e.time_start, 10) = tomorrow_iso
              /\ ~(In(today_entries, e) /\ In(tomorrow_entries, e))

\* after a refresh: one entry of today, and one of another day in no bucket
C6_Witness ==
    /\ pc = "loop" /\ event = "swipe"
    /\ Len(all_prices) = 2
    /\ Len(today_entries) = 1 /\ Len(tomorrow_entries) = 0

\* C7: a refresh whose two fetches fail leaves the held series and its
\* today/tomorrow partitions as they were, and the loop goes on
C7_FailedFetchKeepsSeries ==
    [][ event' = "swipe" /\ fetched' = "failed" =>
            /\ pc' = "loop"
            /\ all_prices' = all_prices
            /\ today_entries' = today_entries
            /\ tomorrow_entries' = tomorrow_entries ]_vars

\* C8: a sample lacking time_start or SEK_per_kWh is skipped: the series is
\* the consolidation of the remaining samples, and nothing is raised
C8_MalformedSkipped ==
    LET WellFormed(e) == DOMAIN e = {"time_start", "SEK_per_kWh"} IN
    event \in {"start", "swipe"} =>
        /\ fault = "none"
        /\ all_prices = Consolidate(SelectSeq(raw, WellFormed)).value

\* C9: no touch sequence ends the loop with a rendering fault, whatever the
\* series (empty, or flat with two or more entries), and an empty series is
\* on the display as "No data found"
C9_NoRenderFault ==
    /\ fault \notin {"ValueError", "ZeroDivisionError"}
    /\ pc = "loop" /\ all_prices = <<>> => screen = "nodata"

\* C10: at loop entry and at the end of every iteration the view on the
\* display is the one state names: the listing iff state = 'prices', the
\* plot iff state = 'plot'
C10_ScreenMatchesState ==
    pc = "loop" => ViewMatches(screen, state)

\* a swipe begun in the listing: the touch-down showed the plot, the release
\* refreshed and showed the listing again
C10_Witness ==
    /\ pc = "loop" /\ event = "swipe"
    /\ cycleState = "prices" /\ toggles = 1
    /\ state = "prices" /\ screen = "listing"

====
